---- MODULE Spec2Model ----
(***************************************************************************)
(* Model of the MIDI input capture of input-timing:                        *)
(*   src/src/midi.rs                MidiInput (the two mutex-guarded maps, *)
(*                                  the driver callback, get_pressed_buttons*)
(*                                  and flush)                             *)
(*   src/src/midi_input_handler.rs  MidiInputHandler::process and the      *)
(*                                  device note maps                       *)
(*   src/src/main.rs                the frame loop                         *)
(*                                                                         *)
(* Two threads: the driver thread runs the connect() callback once per     *)
(* message, the frame thread runs process() once per frame.  A HashMap is  *)
(* a function from its keys to its values; a Vec is a sequence; a String   *)
(* is a sequence of one-character strings.                                 *)
(***************************************************************************)
EXTENDS Integers, Sequences, FiniteSets, TLC

\* Number of messages the driver delivers in one run.
MaxMsgs == 2

VARIABLES
    midi_input,        \* MidiInputHandler.midi_input: "Some" or "None"
    device_name,       \* MidiInput.device_name
    raw_inputs,        \* MidiInput.raw_inputs          (the spec's `current`)
    previous_raw_inputs, \* MidiInput.previous_raw_inputs (the spec's `previous`)
    raw_lock,          \* owner of the raw_inputs mutex
    prev_lock,         \* owner of the previous_raw_inputs mutex
    cb_pc,             \* position of the driver thread in the callback
    cb_v,              \* the callback's local `v`
    next_stamp,        \* the driver's `stamp` of the next message
    frame_pc,          \* position of the frame thread
    ic_midi,           \* get_midi_as_user_hits: the selected note map
    pressed_midi,      \* get_midi_as_user_hits: the Vec get_pressed_buttons returned
    events,            \* process(): the Vec<Events> being returned
    \* ---- history (observation only, never read by an action's guard) ----
    since_flush,       \* raw states inserted since the last flush
    since_scan,        \* raw states inserted since the last get_pressed scan
    scan_input,        \* since_flush as it was at the last scan
    frame_input,       \* since_flush as consumed by the last flush
    raced,             \* note-on stamps inserted between a frame's scan and its flush
    owed,              \* stamps of inserted note-ons the device map knows
    seen,              \* stamps returned by some get_pressed_buttons()
    delivered,         \* stamp -> number of process() calls that carried it
    calls              \* store operations completed by the running process() call

vars == <<midi_input, device_name, raw_inputs, previous_raw_inputs, raw_lock,
          prev_lock, cb_pc, cb_v, next_stamp, frame_pc, ic_midi, pressed_midi,
          events, since_flush, since_scan, scan_input, frame_input, raced,
          owed, seen, delivered, calls>>

hist == <<since_flush, since_scan, scan_input, frame_input, raced, owed,
          seen, delivered>>

----------------------------------------------------------------------------
(* Strings *)

\* str::contains: pat occurs in s as a contiguous run.
Contains(s, pat) ==
    \E i \in 1..(Len(s) - Len(pat) + 1) :
        SubSeq(s, i, i + Len(pat) - 1) = pat

STR_MPK == <<"M","P","K"," ","M","i","n","i"," ","M","k"," ","I","I">>
STR_TD17 == <<"T","D","-","1","7">>
STR_TD27 == <<"T","D","-","2","7">>
STR_NITRO == <<"N","i","t","r","o">>

\* Port names the first MIDI port may report.
NAME_TD17 == <<"T","D","-","1","7"," ","M","I","D","I">>
NAME_UNKNOWN == <<"U","n","k","n","o","w","n"," ","D","r","u","m">>
DeviceNames == {STR_MPK, NAME_TD17, NAME_UNKNOWN}

\* More port names, for the selection of the note map.
NAME_TD27 == <<"T","D","-","2","7">>
NAME_NITRO == <<"A","l","e","s","i","s"," ","N","i","t","r","o">>
NAME_NITRO_TD17 == <<"N","i","t","r","o"," ","T","D","-","1","7">>
NAME_NITRO_TD27 == <<"N","i","t","r","o"," ","T","D","-","2","7">>
NAME_MPK_PLUS ==
    <<"M","P","K"," ","M","i","n","i"," ","M","k"," ","I","I","+">>
SelectionNames ==
    DeviceNames \cup {NAME_TD27, NAME_NITRO, NAME_NITRO_TD17, NAME_NITRO_TD27,
                     NAME_MPK_PLUS}

----------------------------------------------------------------------------
(* HashMap<u8, MidiInputDataRaw> *)

EmptyMap == << >>

\* HashMap::insert: the value under k is replaced.
HashMapInsert_KeepOld(m, k, v) ==
    [x \in DOMAIN m \cup {k} |-> IF x \in DOMAIN m THEN m[x] ELSE v]

HashMapInsert(m, k, v) ==
    [x \in DOMAIN m \cup {k} |-> IF x = k THEN v ELSE m[x]]

Values(m) == {m[k] : k \in DOMAIN m}

\* The orders in which a HashMap's iterator may yield the elements of S.
Orders(S) ==
    {s \in [1..Cardinality(S) -> S] : \A e \in S : \E i \in DOMAIN s : s[i] = e}

----------------------------------------------------------------------------
(* midi.rs: MidiInputDataRaw, get_pressed_buttons, flush *)

\* MidiInputDataRaw::is_note_on
is_note_on_FromNoteOff(raw_input) ==
    raw_input.status >= 128 /\ raw_input.status <= 159

is_note_on(raw_input) ==
    raw_input.status >= 144 /\ raw_input.status <= 159

\* MidiInput::get_pressed_buttons: the entries pushed to `pressed` (the Vec
\* holds them in the map's iteration order) and raw_inputs as the call
\* leaves it.
get_pressed_buttons_Drain(raw) ==
    [pressed |-> {raw[k] : k \in {x \in DOMAIN raw : is_note_on(raw[x])}},
     raw_inputs |-> EmptyMap]

get_pressed_buttons(raw) ==
    [pressed |-> {raw[k] : k \in {x \in DOMAIN raw : is_note_on(raw[x])}},
     raw_inputs |-> raw]

\* MidiInput::flush: every entry of raw_inputs is written over or inserted
\* into previous_raw_inputs, then raw_inputs is cleared.
flush_NoClear(prev, raw) ==
    [previous_raw_inputs |->
        [k \in DOMAIN prev \cup DOMAIN raw |->
            IF k \in DOMAIN raw THEN raw[k] ELSE prev[k]],
     raw_inputs |-> raw]

flush_InsertOnly(prev, raw) ==
    [previous_raw_inputs |->
        [k \in DOMAIN prev \cup DOMAIN raw |->
            IF k \in DOMAIN prev THEN prev[k] ELSE raw[k]],
     raw_inputs |-> EmptyMap]

flush_Replace(prev, raw) ==
    [previous_raw_inputs |-> raw,
     raw_inputs |-> EmptyMap]

flush(prev, raw) ==
    [previous_raw_inputs |->
        [k \in DOMAIN prev \cup DOMAIN raw |->
            IF k \in DOMAIN raw THEN raw[k] ELSE prev[k]],
     raw_inputs |-> EmptyMap]

----------------------------------------------------------------------------
(* midi_input_handler.rs: instruments and device note maps *)

ALL_INSTRUMENTS ==
    <<"Crash", "Ride", "OpenHihat", "ClosedHihat", "Tom1", "Tom2", "Tom3",
      "Snare", "Kick", "PedalHiHat">>

Instrument == {ALL_INSTRUMENTS[i] : i \in DOMAIN ALL_INSTRUMENTS}

\* InputConfigMidi::get_note_numbers
get_note_numbers_KickSnare(self, ins) ==
    CASE ins = "ClosedHihat" -> self.closed_hi_hat
      [] ins = "Snare"       -> self.kick
      [] ins = "Kick"        -> self.snare
      [] ins = "OpenHihat"   -> self.open_hi_hat
      [] ins = "Ride"        -> self.ride
      [] ins = "Crash"       -> self.crash
      [] ins = "Tom1"        -> self.tom_1
      [] ins = "Tom2"        -> self.tom_2
      [] ins = "Tom3"        -> self.tom_3
      [] ins = "PedalHiHat"  -> self.pedal_hihat

get_note_numbers(self, ins) ==
    CASE ins = "ClosedHihat" -> self.closed_hi_hat
      [] ins = "Snare"       -> self.snare
      [] ins = "Kick"        -> self.kick
      [] ins = "OpenHihat"   -> self.open_hi_hat
      [] ins = "Ride"        -> self.ride
      [] ins = "Crash"       -> self.crash
      [] ins = "Tom1"        -> self.tom_1
      [] ins = "Tom2"        -> self.tom_2
      [] ins = "Tom3"        -> self.tom_3
      [] ins = "PedalHiHat"  -> self.pedal_hihat

mpk_mini_mk_ii ==
    [closed_hi_hat |-> {44, 48}, snare |-> {45, 49}, kick |-> {46, 50},
     open_hi_hat |-> {47, 51}, ride |-> {}, crash |-> {}, tom_1 |-> {},
     tom_2 |-> {}, tom_3 |-> {}, pedal_hihat |-> {}]

td17_KickInSnare ==
    [closed_hi_hat |-> {42, 22}, snare |-> {38, 40, 36}, kick |-> {36},
     open_hi_hat |-> {46, 26}, ride |-> {51, 53, 59},
     crash |-> {49, 55, 57, 52}, tom_1 |-> {50, 48}, tom_2 |-> {47, 45},
     tom_3 |-> {58, 43}, pedal_hihat |-> {44}]

td17 ==
    [closed_hi_hat |-> {42, 22}, snare |-> {38, 40, 37}, kick |-> {36},
     open_hi_hat |-> {46, 26}, ride |-> {51, 53, 59},
     crash |-> {49, 55, 57, 52}, tom_1 |-> {50, 48}, tom_2 |-> {47, 45},
     tom_3 |-> {58, 43}, pedal_hihat |-> {44}]

td27 ==
    [closed_hi_hat |-> {42, 22}, snare |-> {38, 40, 37}, kick |-> {36},
     open_hi_hat |-> {46, 26}, ride |-> {51, 53, 59},
     crash |-> {49, 55, 57, 52}, tom_1 |-> {50, 48}, tom_2 |-> {47, 45},
     tom_3 |-> {58, 43}, pedal_hihat |-> {44}]

alesis_nitro ==
    [closed_hi_hat |-> {42}, snare |-> {38}, kick |-> {36},
     open_hi_hat |-> {46, 23}, ride |-> {}, crash |-> {}, tom_1 |-> {},
     tom_2 |-> {}, tom_3 |-> {}, pedal_hihat |-> {}]

\* get_midi_as_user_hits: the match on the device name.
select_ic_midi_FallbackNitro(s) ==
    IF s = STR_MPK THEN mpk_mini_mk_ii
    ELSE IF Contains(s, STR_TD17) THEN td17
    ELSE IF Contains(s, STR_TD27) THEN td27
    ELSE alesis_nitro

select_ic_midi_NitroFirst(s) ==
    IF s = STR_MPK THEN mpk_mini_mk_ii
    ELSE IF Contains(s, STR_NITRO) THEN alesis_nitro
    ELSE IF Contains(s, STR_TD17) THEN td17
    ELSE IF Contains(s, STR_TD27) THEN td27
    ELSE td27

select_ic_midi(s) ==
    IF s = STR_MPK THEN mpk_mini_mk_ii
    ELSE IF Contains(s, STR_TD17) THEN td17
    ELSE IF Contains(s, STR_TD27) THEN td27
    ELSE IF Contains(s, STR_NITRO) THEN alesis_nitro
    ELSE td27

\* get_midi_as_user_hits: the inner loop over ALL_INSTRUMENTS for one midi.
hits_of_FirstMatch(ic, midi) ==
    LET Match(ins) == midi.note_number \in get_note_numbers(ic, ins)
        matching == SelectSeq(ALL_INSTRUMENTS, Match)
        first == IF matching = << >> THEN << >> ELSE <<Head(matching)>>
    IN  [i \in DOMAIN first |-> [instrument |-> first[i], raw_data |-> midi]]

hits_of(ic, midi) ==
    LET Match(ins) == midi.note_number \in get_note_numbers(ic, ins)
        matching == SelectSeq(ALL_INSTRUMENTS, Match)
    IN  [i \in DOMAIN matching |->
            [instrument |-> matching[i], raw_data |-> midi]]

\* get_midi_as_user_hits: the outer loop over pressed_midi.
RECURSIVE user_hits(_, _)
user_hits(ic, pressed) ==
    IF pressed = << >> THEN << >>
    ELSE hits_of(ic, Head(pressed)) \o user_hits(ic, Tail(pressed))

----------------------------------------------------------------------------
(* Inputs *)

\* Status bytes the driver delivers: the last note-off (143), the first and
\* last note-on (144, 159) and the first polyphonic aftertouch (160).
Statuses == {143, 144, 159, 160}
Notes == {36, 46}

\* Raw messages: every status on every note at velocity 100, a note-on at
\* velocity 0 on every note, a one-byte timing clock and a two-byte program
\* change.
Messages ==
    {<<s, n, 100>> : s \in Statuses, n \in Notes}
        \cup {<<144, n, 0>> : n \in Notes}
        \cup {<<248>>, <<192, 36>>}

NoRaw == [note_number |-> 0, timestamp |-> 0, non_midi_timestamp_ms |-> 0,
          status |-> 0, note_velocity |-> 0]

NoMap == [closed_hi_hat |-> {}, snare |-> {}, kick |-> {}, open_hi_hat |-> {},
          ride |-> {}, crash |-> {}, tom_1 |-> {}, tom_2 |-> {}, tom_3 |-> {},
          pedal_hihat |-> {}]

Stamps == 1..MaxMsgs

\* The note numbers some instrument of the map ic is mapped to.
MappedNotes(ic) ==
    UNION {get_note_numbers(ic, ins) : ins \in Instrument}

----------------------------------------------------------------------------
(* State after MidiInputHandler::new() *)

InitHist ==
    /\ since_flush = << >>
    /\ since_scan = << >>
    /\ scan_input = << >>
    /\ frame_input = << >>
    /\ raced = {}
    /\ owed = {}
    /\ seen = {}
    /\ delivered = [t \in Stamps |-> 0]

Init ==
    /\ \/ midi_input = "None" /\ device_name = << >>
       \/ midi_input = "Some" /\ device_name \in DeviceNames
    /\ raw_inputs = EmptyMap
    /\ previous_raw_inputs = EmptyMap
    /\ raw_lock = "free"
    /\ prev_lock = "free"
    /\ cb_pc = "idle"
    /\ cb_v = NoRaw
    /\ next_stamp = 1
    /\ frame_pc = "idle"
    /\ ic_midi = NoMap
    /\ pressed_midi = << >>
    /\ events = << >>
    /\ calls = << >>
    /\ InitHist

----------------------------------------------------------------------------
(* Driver thread: the closure passed to connect() *)

\* The closure up to the two info!() lines: a message shorter than three
\* bytes panics on message[1] or message[2], and the driver thread is gone.
CallbackReceive(message) ==
    /\ midi_input = "Some"
    /\ cb_pc = "idle"
    /\ next_stamp <= MaxMsgs
    /\ next_stamp' = next_stamp + 1
    /\ IF Len(message) < 3
         THEN /\ cb_pc' = "panicked"
              /\ cb_v' = NoRaw
         ELSE /\ cb_pc' = "built"
              /\ cb_v' = [note_number |-> message[2],
                          timestamp |-> next_stamp,
                          non_midi_timestamp_ms |-> next_stamp,
                          status |-> message[1],
                          note_velocity |-> message[3]]
    /\ UNCHANGED <<midi_input, device_name, raw_inputs, previous_raw_inputs,
                   raw_lock, prev_lock, frame_pc, ic_midi, pressed_midi,
                   events, hist>>
    /\ UNCHANGED calls

\* raw_inputs.lock().unwrap()
CallbackLock_NoWait ==
    /\ cb_pc = "built"
    /\ raw_lock' = "callback"
    /\ cb_pc' = "locked"
    /\ UNCHANGED <<midi_input, device_name, raw_inputs, previous_raw_inputs,
                   prev_lock, cb_v, next_stamp, frame_pc, ic_midi, pressed_midi,
                   events, hist, calls>>

CallbackLock ==
    /\ cb_pc = "built"
    /\ raw_lock = "free"
    /\ raw_lock' = "callback"
    /\ cb_pc' = "locked"
    /\ UNCHANGED <<midi_input, device_name, raw_inputs, previous_raw_inputs,
                   prev_lock, cb_v, next_stamp, frame_pc, ic_midi, pressed_midi,
                   events, hist>>
    /\ UNCHANGED calls

\* rw.insert(note_number, v); the guard is dropped at the end of the closure.
CallbackInsert_KeepsGuard ==
    /\ cb_pc = "locked"
    /\ raw_inputs' = HashMapInsert(raw_inputs, cb_v.note_number, cb_v)
    /\ raw_lock' = "callback"
    /\ cb_pc' = "idle"
    /\ cb_v' = NoRaw
    /\ since_flush' = Append(since_flush, cb_v)
    /\ since_scan' = Append(since_scan, cb_v)
    /\ UNCHANGED <<midi_input, device_name, previous_raw_inputs, prev_lock,
                   next_stamp, frame_pc, ic_midi, pressed_midi, events,
                   scan_input, frame_input, raced, owed, seen, delivered,
                   calls>>

CallbackInsert ==
    /\ cb_pc = "locked"
    /\ raw_inputs' = HashMapInsert(raw_inputs, cb_v.note_number, cb_v)
    /\ raw_lock' = "free"
    /\ cb_pc' = "idle"
    /\ cb_v' = NoRaw
    /\ since_flush' = Append(since_flush, cb_v)
    /\ since_scan' = Append(since_scan, cb_v)
    /\ raced' = IF frame_pc \in {"hits", "fl_prev"} /\ cb_v.status \in 144..159
                  THEN raced \cup {cb_v.timestamp} ELSE raced
    /\ owed' = IF /\ cb_v.status \in 144..159
                  /\ cb_v.note_number \in MappedNotes(select_ic_midi(device_name))
                 THEN owed \cup {cb_v.timestamp} ELSE owed
    /\ UNCHANGED <<midi_input, device_name, previous_raw_inputs, prev_lock,
                   next_stamp, frame_pc, ic_midi, pressed_midi, events,
                   scan_input, frame_input, seen, delivered>>
    /\ UNCHANGED calls

----------------------------------------------------------------------------
(* Frame thread: main()'s loop calling MidiInputHandler::process *)

\* process() with midi_input = None: the empty Vec is returned.
ProcessNoDevice_FallsThrough ==
    /\ frame_pc = "idle"
    /\ midi_input = "None"
    /\ events' = << >>
    /\ frame_pc' = "hits"
    /\ UNCHANGED <<midi_input, device_name, raw_inputs, previous_raw_inputs,
                   raw_lock, prev_lock, cb_pc, cb_v, next_stamp, ic_midi,
                   pressed_midi, hist, calls>>

ProcessNoDevice ==
    /\ frame_pc = "idle"
    /\ midi_input = "None"
    /\ events' = << >>
    /\ frame_pc' = "done"
    /\ UNCHANGED <<midi_input, device_name, raw_inputs, previous_raw_inputs,
                   raw_lock, prev_lock, cb_pc, cb_v, next_stamp, ic_midi,
                   pressed_midi, hist>>
    /\ UNCHANGED calls

\* process() with a device: get_midi_as_user_hits selects ic_midi.
ProcessCall ==
    /\ frame_pc = "idle"
    /\ midi_input = "Some"
    /\ events' = << >>
    /\ pressed_midi' = << >>
    /\ ic_midi' = select_ic_midi(device_name)
    /\ frame_pc' = "entered"
    /\ UNCHANGED <<midi_input, device_name, raw_inputs, previous_raw_inputs,
                   raw_lock, prev_lock, cb_pc, cb_v, next_stamp, hist>>
    /\ UNCHANGED calls

\* get_pressed_buttons: self.raw_inputs.lock().unwrap()
GetPressedLock ==
    /\ frame_pc = "entered"
    /\ raw_lock = "free"
    /\ raw_lock' = "frame"
    /\ frame_pc' = "gp_locked"
    /\ UNCHANGED <<midi_input, device_name, raw_inputs, previous_raw_inputs,
                   prev_lock, cb_pc, cb_v, next_stamp, ic_midi, pressed_midi,
                   events, hist>>
    /\ UNCHANGED calls

\* get_pressed_buttons scans raw_inputs and drops the guard; then
\* get_midi_as_user_hits maps the pressed entries and process() pushes one
\* Events::Hit per UserHit.
GetPressedScan_ReturnsEarly ==
    /\ frame_pc = "gp_locked"
    /\ LET r == get_pressed_buttons(raw_inputs) IN
         /\ raw_inputs' = r.raw_inputs
         /\ pressed_midi' \in Orders(r.pressed)
         /\ events' = user_hits(ic_midi, pressed_midi')
         /\ seen' = seen \cup {raw.timestamp : raw \in r.pressed}
    /\ delivered' =
         [t \in Stamps |->
            IF \E i \in DOMAIN events' : events'[i].raw_data.timestamp = t
              THEN IF delivered[t] < 2 THEN delivered[t] + 1 ELSE 2
              ELSE delivered[t]]
    /\ raw_lock' = "free"
    /\ frame_pc' = IF events' = << >> THEN "done" ELSE "hits"
    /\ scan_input' = since_flush
    /\ since_scan' = << >>
    /\ UNCHANGED <<midi_input, device_name, previous_raw_inputs, prev_lock,
                   cb_pc, cb_v, next_stamp, ic_midi, since_flush, frame_input,
                   raced, owed>>
    /\ calls' = Append(calls, "get_pressed_buttons")

GetPressedScan ==
    /\ frame_pc = "gp_locked"
    /\ LET r == get_pressed_buttons(raw_inputs) IN
         /\ raw_inputs' = r.raw_inputs
         /\ pressed_midi' \in Orders(r.pressed)
         /\ events' = user_hits(ic_midi, pressed_midi')
         /\ seen' = seen \cup {raw.timestamp : raw \in r.pressed}
    /\ delivered' =
         [t \in Stamps |->
            IF \E i \in DOMAIN events' : events'[i].raw_data.timestamp = t
              THEN IF delivered[t] < 2 THEN delivered[t] + 1 ELSE 2
              ELSE delivered[t]]
    /\ raw_lock' = "free"
    /\ frame_pc' = "hits"
    /\ scan_input' = since_flush
    /\ since_scan' = << >>
    /\ UNCHANGED <<midi_input, device_name, previous_raw_inputs, prev_lock,
                   cb_pc, cb_v, next_stamp, ic_midi, since_flush, frame_input,
                   raced, owed>>
    /\ calls' = Append(calls, "get_pressed_buttons")

\* flush: self.previous_raw_inputs.lock().unwrap()
FlushLockPrev ==
    /\ frame_pc = "hits"
    /\ prev_lock = "free"
    /\ prev_lock' = "frame"
    /\ frame_pc' = "fl_prev"
    /\ UNCHANGED <<midi_input, device_name, raw_inputs, previous_raw_inputs,
                   raw_lock, cb_pc, cb_v, next_stamp, ic_midi, pressed_midi,
                   events, hist>>
    /\ UNCHANGED calls

\* flush: self.raw_inputs.lock().unwrap()
FlushLockRaw ==
    /\ frame_pc = "fl_prev"
    /\ raw_lock = "free"
    /\ raw_lock' = "frame"
    /\ frame_pc' = "fl_both"
    /\ UNCHANGED <<midi_input, device_name, raw_inputs, previous_raw_inputs,
                   prev_lock, cb_pc, cb_v, next_stamp, ic_midi, pressed_midi,
                   events, hist>>
    /\ UNCHANGED calls

\* flush: the copy loop and the clear; both guards are dropped and process()
\* returns events.
FlushBody ==
    /\ frame_pc = "fl_both"
    /\ LET r == flush(previous_raw_inputs, raw_inputs) IN
         /\ previous_raw_inputs' = r.previous_raw_inputs
         /\ raw_inputs' = r.raw_inputs
    /\ raw_lock' = "free"
    /\ prev_lock' = "free"
    /\ frame_pc' = "done"
    /\ frame_input' = since_flush
    /\ since_flush' = << >>
    /\ UNCHANGED <<midi_input, device_name, cb_pc, cb_v, next_stamp, ic_midi,
                   pressed_midi, events, since_scan, scan_input, raced, owed,
                   seen, delivered>>
    /\ calls' = Append(calls, "flush")

\* main(): the events are printed and next_frame().await yields.
NextFrame ==
    /\ frame_pc = "done"
    /\ frame_pc' = "idle"
    /\ UNCHANGED <<midi_input, device_name, raw_inputs, previous_raw_inputs,
                   raw_lock, prev_lock, cb_pc, cb_v, next_stamp, ic_midi,
                   pressed_midi, events, hist>>
    /\ calls' = << >>

FrameStep ==
    \/ ProcessNoDevice
    \/ ProcessCall
    \/ GetPressedLock
    \/ GetPressedScan
    \/ FlushLockPrev
    \/ FlushLockRaw
    \/ FlushBody
    \/ NextFrame

Next ==
    \/ \E message \in Messages : CallbackReceive(message)
    \/ CallbackLock
    \/ CallbackInsert
    \/ ProcessNoDevice
    \/ ProcessCall
    \/ GetPressedLock
    \/ GetPressedScan
    \/ FlushLockPrev
    \/ FlushLockRaw
    \/ FlushBody
    \/ NextFrame

Spec == Init /\ [][Next]_vars

\* The frame loop never stops calling process(), and a thread that can take
\* or holds a lock goes on.
FairSpec ==
    Spec /\ WF_vars(FrameStep) /\ WF_vars(CallbackLock) /\ WF_vars(CallbackInsert)

----------------------------------------------------------------------------
(* The same program on more port names *)

InitNames ==
    /\ \/ midi_input = "None" /\ device_name = << >>
       \/ midi_input = "Some" /\ device_name \in SelectionNames
    /\ raw_inputs = EmptyMap
    /\ previous_raw_inputs = EmptyMap
    /\ raw_lock = "free"
    /\ prev_lock = "free"
    /\ cb_pc = "idle"
    /\ cb_v = NoRaw
    /\ next_stamp = 1
    /\ frame_pc = "idle"
    /\ ic_midi = NoMap
    /\ pressed_midi = << >>
    /\ events = << >>
    /\ calls = << >>
    /\ InitHist

NameSpec == InitNames /\ [][Next]_vars

----------------------------------------------------------------------------
(* The translation loop on note maps other than the compiled-in ones *)

\* A map in which note 36 belongs to Kick and to Snare.
misconfigured == [td17 EXCEPT !.snare = {38, 40, 37, 36}]

TestMaps == {mpk_mini_mk_ii, td17, td27, alesis_nitro, misconfigured}

\* process() with a device, ic_midi being any of TestMaps.
ProcessCallWithMap ==
    /\ frame_pc = "idle"
    /\ midi_input = "Some"
    /\ events' = << >>
    /\ pressed_midi' = << >>
    /\ ic_midi' \in TestMaps
    /\ frame_pc' = "entered"
    /\ UNCHANGED <<midi_input, device_name, raw_inputs, previous_raw_inputs,
                   raw_lock, prev_lock, cb_pc, cb_v, next_stamp, hist>>
    /\ UNCHANGED calls

InitMap ==
    /\ Init
    /\ midi_input = "Some"
    /\ device_name = NAME_TD17

NextMap ==
    \/ \E message \in Messages : CallbackReceive(message)
    \/ CallbackLock
    \/ CallbackInsert
    \/ ProcessCallWithMap
    \/ GetPressedLock
    \/ GetPressedScan
    \/ FlushLockPrev
    \/ FlushLockRaw
    \/ FlushBody
    \/ NextFrame

MapSpec == InitMap /\ [][NextMap]_vars

----------------------------------------------------------------------------
(* The two threads and the two mutexes, on few messages *)

\* One note-on and a one-byte timing clock: the locking does not depend on
\* what a message holds.
LockMessages == {<<144, 36, 100>>, <<248>>}

NextLock ==
    \/ \E message \in LockMessages : CallbackReceive(message)
    \/ CallbackLock
    \/ CallbackInsert
    \/ ProcessCall
    \/ GetPressedLock
    \/ GetPressedScan
    \/ FlushLockPrev
    \/ FlushLockRaw
    \/ FlushBody
    \/ NextFrame

\* The frame loop never stops, a thread that holds a mutex goes on, and a
\* thread blocked on a mutex gets it when it is released again and again.
LockSpec ==
    /\ InitMap
    /\ [][NextLock]_vars
    /\ WF_vars(FrameStep)
    /\ SF_vars(GetPressedLock)
    /\ SF_vars(FlushLockRaw)
    /\ SF_vars(CallbackLock)
    /\ WF_vars(CallbackInsert)

----------------------------------------------------------------------------
(* Properties *)

SeqToSet(q) == {q[i] : i \in DOMAIN q}

\* The note-number set a device map gives an instrument.
NoteSet(ic, ins) ==
    [Crash |-> ic.crash, Ride |-> ic.ride, OpenHihat |-> ic.open_hi_hat,
     ClosedHihat |-> ic.closed_hi_hat, Tom1 |-> ic.tom_1, Tom2 |-> ic.tom_2,
     Tom3 |-> ic.tom_3, Snare |-> ic.snare, Kick |-> ic.kick,
     PedalHiHat |-> ic.pedal_hihat][ins]

StatusIsNoteOn(b) == 144 <= b /\ b <= 159

\* C1: a note-on that the callback inserts after a frame's get_pressed() has
\* released the lock and before that frame's flush() takes it is eventually
\* returned by a get_pressed() (delayed, never dropped).
C1_RacedMessageReturned ==
    \A t \in Stamps : (t \in raced) ~> (t \in seen)

\* C2: every inserted note-on whose note the device map knows is eventually
\* carried by a Hit event of some process() call.
C2_NoEventLost ==
    \A t \in Stamps : (t \in owed) ~> (delivered[t] >= 1)

\* C3: a message is carried by the Hit events of at most one process() call.
C3_NoDuplicate ==
    \A t \in Stamps : delivered[t] <= 1

\* C3 witness: a process() call has returned without a message that an
\* earlier process() call returned.
C3_Witness ==
    /\ frame_pc = "done"
    /\ \E t \in Stamps :
         /\ delivered[t] = 1
         /\ \A i \in DOMAIN events : events[i].raw_data.timestamp # t

\* C4: the events of process() are exactly one Hit per pair (raw, instrument)
\* with raw returned by get_pressed() in that call and raw.note_number in the
\* map's set for the instrument; nothing else is emitted.
C4_ExactlyOneHitPerPair ==
    [][GetPressedScan =>
        LET pairs == {p \in SeqToSet(pressed_midi') \X Instrument :
                         p[1].note_number \in NoteSet(ic_midi, p[2])}
        IN  /\ SeqToSet(pressed_midi') =
                 {raw_inputs[k] :
                    k \in {x \in DOMAIN raw_inputs : is_note_on(raw_inputs[x])}}
            /\ Len(pressed_midi') = Cardinality(SeqToSet(pressed_midi'))
            /\ Len(events') = Cardinality(pairs)
            /\ \A p \in pairs :
                 \E i \in DOMAIN events' :
                    events'[i] = [instrument |-> p[2], raw_data |-> p[1]]
    ]_vars

\* C4 witness: one raw state whose note is in the sets of two instruments has
\* yielded two Hit events in one process() call.
C4_Witness ==
    /\ frame_pc = "hits"
    /\ \E i, j \in DOMAIN events :
         /\ events[i].raw_data = events[j].raw_data
         /\ events[i].instrument = "Kick"
         /\ events[j].instrument = "Snare"

\* C5: flush() leaves raw_inputs empty and every key raw_inputs had when
\* flush() held it is in previous_raw_inputs with the value it had.
C5_FlushMovesState ==
    [][FlushBody =>
        /\ raw_inputs' = EmptyMap
        /\ \A n \in DOMAIN raw_inputs :
             /\ n \in DOMAIN previous_raw_inputs'
             /\ previous_raw_inputs'[n] = raw_inputs[n]
    ]_vars

\* C5 witness: a flush has moved a non-empty raw_inputs into
\* previous_raw_inputs.
C5_Witness ==
    /\ frame_pc = "done"
    /\ raw_inputs = EmptyMap
    /\ frame_input # << >>
    /\ \E i \in DOMAIN frame_input :
         /\ frame_input[i].note_number \in DOMAIN previous_raw_inputs
         /\ previous_raw_inputs[frame_input[i].note_number] = frame_input[i]

\* C6: a process() call with no insert since the previous flush returns no
\* event and leaves previous_raw_inputs as it was.
C6_QuietFrame ==
    [][(FlushBody /\ since_flush = << >>) =>
        /\ events = << >>
        /\ events' = << >>
        /\ previous_raw_inputs' = previous_raw_inputs
    ]_vars

\* C6 witness: a quiet process() call has returned and previous_raw_inputs
\* still holds an entry.
C6_Witness ==
    /\ frame_pc = "done"
    /\ frame_input = << >>
    /\ events = << >>
    /\ previous_raw_inputs # EmptyMap

\* C7: on a device whose name contains "TD-17", when the only message since
\* the last flush is a note-on with status 144 for note 36, process() returns
\* exactly Hit(Kick, that message); the next process() call, with no message
\* in between, returns nothing.
C7_EndToEnd ==
    [][GetPressedScan =>
        /\ ( /\ Contains(device_name, STR_TD17)
             /\ Len(since_flush) = 1
             /\ since_flush[1].status = 144
             /\ since_flush[1].note_number = 36 )
           => events' = <<[instrument |-> "Kick", raw_data |-> since_flush[1]]>>
        /\ ( /\ Contains(device_name, STR_TD17)
             /\ Len(scan_input) = 1
             /\ scan_input[1].status = 144
             /\ scan_input[1].note_number = 36
             /\ since_scan = << >> )
           => events' = << >>
    ]_vars

\* C7 witness: the one message ever received was the note-on for note 36, a
\* process() call returned it and the following process() call has returned
\* nothing.
C7_Witness ==
    /\ Contains(device_name, STR_TD17)
    /\ frame_pc = "done"
    /\ next_stamp = 2
    /\ delivered[1] = 1
    /\ 36 \in DOMAIN previous_raw_inputs
    /\ previous_raw_inputs[36].status = 144
    /\ frame_input = << >>
    /\ events = << >>

\* C8: get_pressed() changes neither map, so a second get_pressed() right
\* after it would return the same raw states.
C8_GetPressedReadOnly ==
    [][GetPressedScan =>
        /\ raw_inputs' = raw_inputs
        /\ previous_raw_inputs' = previous_raw_inputs
        /\ get_pressed_buttons(raw_inputs').pressed = SeqToSet(pressed_midi')
    ]_vars

\* C8 witness: get_pressed() has just returned a raw state.
C8_Witness ==
    /\ frame_pc = "hits"
    /\ since_scan = << >>
    /\ pressed_midi # << >>
    /\ raw_inputs # EmptyMap

\* C9: raw_inputs holds at most one raw state per note number, and the
\* callback's insert leaves its message under the message's note number
\* whatever was stored there.
C9_LatestWins ==
    [][/\ \A k1, k2 \in DOMAIN raw_inputs' :
            raw_inputs'[k1].note_number = raw_inputs'[k2].note_number
                => k1 = k2
       /\ \A k \in DOMAIN raw_inputs' : raw_inputs'[k].note_number = k
       /\ CallbackInsert =>
            /\ raw_inputs'[cb_v.note_number] = cb_v
            /\ \A k \in DOMAIN raw_inputs \ {cb_v.note_number} :
                 raw_inputs'[k] = raw_inputs[k]
    ]_vars

\* C9 witness: a message has replaced an entry of the same note number with
\* another status byte and another velocity.
C9_Witness ==
    \E i, j \in DOMAIN since_flush :
        /\ i < j
        /\ since_flush[i].note_number = since_flush[j].note_number
        /\ since_flush[i].status # since_flush[j].status
        /\ since_flush[i].note_velocity # since_flush[j].note_velocity
        /\ since_flush[j].note_number \in DOMAIN raw_inputs
        /\ raw_inputs[since_flush[j].note_number] = since_flush[j]

\* C10: is_note_on holds exactly for the status bytes 144..159, whatever the
\* velocity and the note number, and get_pressed() returns exactly the
\* entries of raw_inputs with such a status byte.
C10_NoteOnClassification ==
    /\ \A b \in 0..255 : \A n \in {0, 36, 127} : \A v \in {0, 100, 127} :
         is_note_on([note_number |-> n, timestamp |-> 1,
                     non_midi_timestamp_ms |-> 1, status |-> b,
                     note_velocity |-> v]) <=> StatusIsNoteOn(b)
    /\ [][GetPressedScan =>
            SeqToSet(pressed_midi') =
                {r \in Values(raw_inputs) : StatusIsNoteOn(r.status)}
         ]_vars

\* C10 witness: get_pressed() has returned a note-on of velocity 0 and left
\* out a note-off.
C10_Witness ==
    /\ frame_pc = "hits"
    /\ since_scan = << >>
    /\ \E i \in DOMAIN pressed_midi : pressed_midi[i].note_velocity = 0
    /\ \E k \in DOMAIN raw_inputs : raw_inputs[k].status = 143

\* The frame thread is inside process() or has just returned from it.
InCall == frame_pc \in {"entered", "gp_locked", "hits", "fl_prev", "fl_both",
                        "done"}

KnownKit(s) ==
    Contains(s, STR_TD17) \/ Contains(s, STR_TD27) \/ Contains(s, STR_NITRO)

\* C11: for a device name that is not "MPK Mini Mk II" and contains none of
\* "TD-17", "TD-27", "Nitro", process() uses the TD-27 map.
C11_MappingFallback ==
    (midi_input = "Some" /\ InCall /\ device_name # STR_MPK
        /\ ~KnownKit(device_name))
    => ic_midi = td27

\* C11 witness: on an unknown device a process() call has produced a Hit with
\* the TD-27 map.
C11_Witness ==
    /\ device_name = NAME_UNKNOWN
    /\ frame_pc = "hits"
    /\ ic_midi = td27
    /\ events # << >>

\* C12: with no MIDI device every process() call returns the empty sequence
\* and touches no store: nothing is locked, read, written or flushed.
C12_NoDevice ==
    midi_input = "None" =>
        /\ frame_pc \in {"idle", "done"}
        /\ events = << >>
        /\ calls = << >>
        /\ raw_inputs = EmptyMap
        /\ previous_raw_inputs = EmptyMap
        /\ raw_lock = "free"
        /\ prev_lock = "free"

\* C12 witness: a process() call has returned with no device.
C12_Witness ==
    /\ midi_input = "None"
    /\ frame_pc = "done"

\* C13: every get_pressed_buttons() and flush() that process() starts gets
\* its locks and process() returns; every callback that has built its raw
\* state gets the lock and finishes its insert.
C13_NoHang ==
    /\ (frame_pc \in {"entered", "gp_locked", "hits", "fl_prev", "fl_both"})
          ~> (frame_pc = "done")
    /\ (cb_pc \in {"built", "locked"}) ~> (cb_pc = "idle")

\* C13 witness: flush() holds the previous_raw_inputs mutex and waits for the
\* raw_inputs mutex, which the callback holds.
C13_Witness ==
    /\ frame_pc = "fl_prev"
    /\ prev_lock = "frame"
    /\ raw_lock = "callback"
    /\ cb_pc = "locked"

\* The Hit events a process() call scanning raw would return.
PendingHits(raw) ==
    UNION {SeqToSet(hits_of(select_ic_midi(device_name), r)) :
             r \in get_pressed_buttons(raw).pressed}

\* C14: a message whose status byte is outside 128..159 is stored in
\* raw_inputs, never yields a Hit, and its arrival does not change the events
\* process() returns.
C14_OtherStatusNotActedUpon ==
    [][/\ \A i \in DOMAIN events' : events'[i].raw_data.status \in 128..159
       /\ (CallbackInsert /\ cb_v.status \notin 128..159) =>
            /\ cb_v.note_number \in DOMAIN raw_inputs'
            /\ raw_inputs'[cb_v.note_number] = cb_v
            /\ PendingHits(raw_inputs') = PendingHits(raw_inputs)
    ]_vars

\* C15: a message of fewer than three bytes is dropped without faulting.
C15_ShortMessageDropped ==
    cb_pc # "panicked"

C17_ScanThenFlush ==
    midi_input = "Some" =>
        /\ calls \in {<< >>, <<"get_pressed_buttons">>,
                      <<"get_pressed_buttons", "flush">>}
        /\ frame_pc = "done" => calls = <<"get_pressed_buttons", "flush">>

\* C17 witness: a process() call that returns no event has scanned and
\* flushed.
C17_Witness ==
    /\ midi_input = "Some"
    /\ frame_pc = "done"
    /\ events = << >>
    /\ calls = <<"get_pressed_buttons", "flush">>

\* C18 as stated: after every flush() previous_raw_inputs equals what
\* raw_inputs held right before it, with nothing left of earlier flushes.
C18_OnlyLastGeneration ==
    [][FlushBody => previous_raw_inputs' = raw_inputs]_vars

\* C18 as amended: after every flush() previous_raw_inputs holds every entry
\* raw_inputs held right before it, and keeps unchanged every entry it had
\* under a note number raw_inputs did not hold.
C18_UpsertKeepsOlder ==
    [][FlushBody =>
        /\ DOMAIN previous_raw_inputs' =
              DOMAIN previous_raw_inputs \cup DOMAIN raw_inputs
        /\ \A k \in DOMAIN raw_inputs :
              previous_raw_inputs'[k] = raw_inputs[k]
        /\ \A k \in DOMAIN previous_raw_inputs \ DOMAIN raw_inputs :
              previous_raw_inputs'[k] = previous_raw_inputs[k]
    ]_vars

\* C18 witness: after a flush of a non-empty raw_inputs, previous_raw_inputs
\* holds an entry of a note number that flush did not carry.
C18_Witness ==
    /\ frame_pc = "done"
    /\ frame_input # << >>
    /\ \E k \in DOMAIN previous_raw_inputs :
         \A i \in DOMAIN frame_input : frame_input[i].note_number # k

\* C19: the map is selected first-match: a name equal to "MPK Mini Mk II"
\* selects the MPK map; otherwise the first of "TD-17", "TD-27", "Nitro" the
\* name contains selects its map; a name that only contains "MPK Mini Mk II"
\* does not select the MPK map.
C19_FirstMatch ==
    (midi_input = "Some" /\ InCall) =>
        /\ device_name = STR_MPK => ic_midi = mpk_mini_mk_ii
        /\ (device_name # STR_MPK /\ Contains(device_name, STR_TD17))
              => ic_midi = td17
        /\ (device_name # STR_MPK /\ ~Contains(device_name, STR_TD17)
              /\ Contains(device_name, STR_TD27))
              => ic_midi = td27
        /\ (device_name # STR_MPK /\ ~Contains(device_name, STR_TD17)
              /\ ~Contains(device_name, STR_TD27)
              /\ Contains(device_name, STR_NITRO))
              => ic_midi = alesis_nitro
        /\ (device_name # STR_MPK /\ Contains(device_name, STR_MPK))
              => ic_midi # mpk_mini_mk_ii

\* C19 witness: a name that contains "Nitro" before "TD-17" has selected the
\* TD-17 map.
C19_Witness ==
    /\ device_name = NAME_NITRO_TD17
    /\ frame_pc = "entered"
    /\ ic_midi = td17
    /\ ic_midi # alesis_nitro

\* C20: in each compiled-in map the note-number sets of the instruments are
\* pairwise disjoint, and a process() call returns at most one Hit per note
\* number.
C20_DisjointMaps ==
    /\ \A ic \in {mpk_mini_mk_ii, td17, td27, alesis_nitro} :
         \A a, b \in Instrument :
            a # b => NoteSet(ic, a) \cap NoteSet(ic, b) = {}
    /\ [][\A i, j \in DOMAIN events' :
            events'[i].raw_data.note_number = events'[j].raw_data.note_number
               => i = j
         ]_vars

\* C20 witness: a process() call has returned one Hit for each of two note
\* numbers.
C20_Witness ==
    /\ frame_pc = "hits"
    /\ Len(events) = 2
    /\ events[1].raw_data.note_number # events[2].raw_data.note_number
    /\ events[1].instrument # events[2].instrument

====
